---- MODULE Spec2Model ----
(* void-cutter: common-silence detection (internal/silence/detection.go)   *)
(* and silence excision (internal/silence cutting) as run by runVoidCutter. *)
EXTENDS Integers, Sequences, FiniteSets, TLC

(***************************************************************************)
(* Natural numbers wider than the checker's integers: little-endian        *)
(* sequences of base-2^15 digits without a leading zero digit; <<>> is 0.  *)
(* They carry the 53-bit significands of Go's float64.                     *)
(***************************************************************************)
Base == 2 ^ 15

RECURSIVE BTrim(_)
BTrim(a) ==
    IF a = <<>> THEN <<>>
    ELSE IF a[Len(a)] = 0 THEN BTrim(SubSeq(a, 1, Len(a) - 1))
    ELSE a

RECURSIVE BFromInt(_)
BFromInt(n) == IF n = 0 THEN <<>> ELSE <<n % Base>> \o BFromInt(n \div Base)

RECURSIVE BToInt(_)
BToInt(a) == IF a = <<>> THEN 0 ELSE a[1] + Base * BToInt(Tail(a))

RECURSIVE BAddC(_, _, _)
BAddC(a, b, c) ==
    IF a = <<>> /\ b = <<>> THEN (IF c = 0 THEN <<>> ELSE <<c>>)
    ELSE LET x == IF a = <<>> THEN 0 ELSE a[1]
             y == IF b = <<>> THEN 0 ELSE b[1]
             s == x + y + c
         IN  <<s % Base>> \o BAddC(IF a = <<>> THEN <<>> ELSE Tail(a),
                                   IF b = <<>> THEN <<>> ELSE Tail(b),
                                   s \div Base)

BAdd(a, b) == BAddC(a, b, 0)

RECURSIVE BSubB(_, _, _)
BSubB(a, b, w) ==
    IF a = <<>> THEN <<>>
    ELSE LET y == IF b = <<>> THEN 0 ELSE b[1]
             s == a[1] - y - w
         IN  <<IF s < 0 THEN s + Base ELSE s>>
               \o BSubB(Tail(a), IF b = <<>> THEN <<>> ELSE Tail(b),
                        IF s < 0 THEN 1 ELSE 0)

\* a - b for a >= b
BSub(a, b) == BTrim(BSubB(a, b, 0))

RECURSIVE BCmpFrom(_, _, _)
BCmpFrom(a, b, i) ==
    IF i = 0 THEN 0
    ELSE IF a[i] > b[i] THEN 1
    ELSE IF a[i] < b[i] THEN -1
    ELSE BCmpFrom(a, b, i - 1)

\* -1, 0, 1 as a < b, a = b, a > b
BCmp(a, b) ==
    IF Len(a) > Len(b) THEN 1
    ELSE IF Len(a) < Len(b) THEN -1
    ELSE BCmpFrom(a, b, Len(a))

RECURSIVE BMulSmallC(_, _, _)
BMulSmallC(a, k, c) ==
    IF a = <<>> THEN BFromInt(c)
    ELSE LET p == a[1] * k + c
         IN  <<p % Base>> \o BMulSmallC(Tail(a), k, p \div Base)

\* a * k for 0 <= k <= Base
BMulSmall(a, k) == BTrim(BMulSmallC(a, k, 0))

RECURSIVE BDivSmallFrom(_, _, _, _)
BDivSmallFrom(a, k, i, r) ==
    IF i = 0 THEN [q |-> <<>>, r |-> r]
    ELSE LET cur  == r * Base + a[i]
             rest == BDivSmallFrom(a, k, i - 1, cur % k)
         IN  [q |-> rest.q \o <<cur \div k>>, r |-> rest.r]

\* quotient and remainder of a by k, 0 < k < Base
BDivSmall(a, k) ==
    LET d == BDivSmallFrom(a, k, Len(a), 0) IN [q |-> BTrim(d.q), r |-> d.r]

Zeros(n) == [i \in 1..n |-> 0]

\* a * 2^n
BShl(a, n) ==
    IF a = <<>> THEN <<>>
    ELSE BMulSmall(Zeros(n \div 15) \o a, 2 ^ (n % 15))

\* floor(a / 2^n)
BShr(a, n) ==
    IF Len(a) <= n \div 15 THEN <<>>
    ELSE BDivSmall(SubSeq(a, (n \div 15) + 1, Len(a)), 2 ^ (n % 15)).q

RECURSIVE IntBitLen(_)
IntBitLen(n) == IF n = 0 THEN 0 ELSE 1 + IntBitLen(n \div 2)

BBitLen(a) == IF a = <<>> THEN 0 ELSE (Len(a) - 1) * 15 + IntBitLen(a[Len(a)])

\* the largest digit d + k, 0 <= k < 2^(bit+1), with b * (d + k) <= r
RECURSIVE BQuotientDigit(_, _, _, _)
BQuotientDigit(r, b, bit, d) ==
    IF bit < 0 THEN d
    ELSE IF BCmp(BMulSmall(b, d + 2 ^ bit), r) <= 0
         THEN BQuotientDigit(r, b, bit - 1, d + 2 ^ bit)
         ELSE BQuotientDigit(r, b, bit - 1, d)

\* long division, digit by digit from the most significant of the i digits left
RECURSIVE BDivDigits(_, _, _, _, _)
BDivDigits(a, b, i, q, r) ==
    IF i = 0 THEN [q |-> BTrim(q), r |-> r]
    ELSE LET r2 == BTrim(<<a[i]>> \o r)
             d  == BQuotientDigit(r2, b, 14, 0)
         IN  BDivDigits(a, b, i - 1, <<d>> \o q, BSub(r2, BMulSmall(b, d)))

\* quotient and remainder of a by b > 0
BDiv(a, b) == BDivDigits(a, b, Len(a), <<>>, <<>>)

(***************************************************************************)
(* Go float64 (IEEE-754 binary64, round to nearest, ties to even).  A      *)
(* value is [neg, m, e]: (-1)^neg * m * 2^e with m a 53-bit significand,   *)
(* or m = <<>> for zero.  Exponent range and subnormals are not reached by *)
(* the durations handled here.                                             *)
(***************************************************************************)
Precision == 53

FZero == [neg |-> FALSE, m |-> <<>>, e |-> 0]

\* the float64 nearest to (N + f) * 2^e, where 0 < f < 1 iff sticky
FRound(neg, N, e, sticky) ==
    IF N = <<>> THEN FZero
    ELSE LET L == BBitLen(N) IN
         IF L <= Precision
         THEN [neg |-> neg, m |-> BShl(N, Precision - L), e |-> e - (Precision - L)]
         ELSE LET d    == L - Precision
                  q    == BShr(N, d)
                  r    == BSub(N, BShl(q, d))
                  c    == BCmp(r, BShl(<<1>>, d - 1))
                  up   == c > 0 \/ (c = 0 /\ (sticky \/ q[1] % 2 = 1))
                  q2   == IF up THEN BAdd(q, <<1>>) ELSE q
              IN  IF BBitLen(q2) > Precision
                  THEN [neg |-> neg, m |-> BShr(q2, 1), e |-> e + d + 1]
                  ELSE [neg |-> neg, m |-> q2, e |-> e + d]

\* float64(n) for an int n >= 0
FFromInt(n) == FRound(FALSE, BFromInt(n), 0, FALSE)

\* x / float64(n) for x >= 0 and an int n > 0
FDivInt(x, n) ==
    IF x.m = <<>> THEN FZero
    ELSE LET d == BDivSmall(BShl(x.m, 17), n)
         IN  FRound(x.neg, d.q, x.e - 17, d.r # 0)

\* x / y for y > 0
FDiv(x, y) ==
    IF x.m = <<>> THEN FZero
    ELSE LET d == BDiv(BShl(x.m, 56), y.m)
         IN  FRound(x.neg, d.q, x.e - 56 - y.e, d.r # <<>>)

\* x * float64(n) for an int n >= 0
FMulInt(x, n) == FRound(x.neg, BMulSmall(x.m, n), x.e, FALSE)

FMinExp(x, y) == IF x.e < y.e THEN x.e ELSE y.e

\* x + y for x, y >= 0
FAdd(x, y) ==
    IF x.m = <<>> THEN y
    ELSE IF y.m = <<>> THEN x
    ELSE LET em == FMinExp(x, y)
         IN  FRound(FALSE, BAdd(BShl(x.m, x.e - em), BShl(y.m, y.e - em)), em, FALSE)

\* x - y for x, y >= 0
FSub(x, y) ==
    IF y.m = <<>> THEN x
    ELSE IF x.m = <<>> THEN [y EXCEPT !.neg = TRUE]
    ELSE LET em == FMinExp(x, y)
             a  == BShl(x.m, x.e - em)
             b  == BShl(y.m, y.e - em)
         IN  IF BCmp(a, b) >= 0
             THEN FRound(FALSE, BSub(a, b), em, FALSE)
             ELSE FRound(TRUE, BSub(b, a), em, FALSE)

\* x < y
FLt(x, y) ==
    IF x.neg /\ ~y.neg THEN TRUE
    ELSE IF ~x.neg /\ y.neg THEN FALSE
    ELSE LET lt == IF x.m = <<>> THEN y.m # <<>>
                   ELSE IF y.m = <<>> THEN FALSE
                   ELSE IF x.e # y.e THEN x.e < y.e
                   ELSE BCmp(x.m, y.m) < 0
             gt == IF y.m = <<>> THEN x.m # <<>>
                   ELSE IF x.m = <<>> THEN FALSE
                   ELSE IF x.e # y.e THEN x.e > y.e
                   ELSE BCmp(x.m, y.m) > 0
         IN  IF x.neg THEN gt ELSE lt

FLe(x, y) == ~FLt(y, x)

\* int(x): truncation toward zero
FTrunc(x) ==
    LET mag == IF x.m = <<>> THEN 0
               ELSE IF x.e >= 0 THEN BToInt(BShl(x.m, x.e))
               ELSE BToInt(BShr(x.m, -x.e))
    IN  IF x.neg THEN -mag ELSE mag


(***************************************************************************)
(* Inputs of a run.  The first channel of a frame carries the signal,      *)
(* digital zero or loud; every further channel carries a noise floor below *)
(* the threshold, so that a silent stereo chunk has a non-zero RMS.        *)
(***************************************************************************)
MaxFiles == 2
MaxFrames == 4

Loud == 2 ^ 13
NoiseFloor == 2 ^ 6
SignalValues == {0, Loud}
SampleRates == {100, 200}
ChannelCounts == {1, 2}
MinDurations == {10, 20}
KeepDurations == {0, 5, 10, 20}

\* silence.SilenceDetectionConfig as runVoidCutter fills it in
DefaultThresholdDBFS == -50
DefaultMinSilenceDuration == 500
AnalysisChunkMs == 10

VARIABLES
    cfg,                  \* config.Config: SilenceThreshold, MinSilenceDuration, KeepSilenceDuration,
                          \* and the ChunkSizeMs of the silence.SilenceDetectionConfig
    original,             \* the buffers as handed to DetectCommonSilence
    audioFiles,           \* []*audio.AudioData, mutated by the cut
    origin,               \* per buffer, the original sample index of each current sample
    pc,                   \* position in runVoidCutter
    chunkFrames, minFrames, frameStart, currentSilenceStart,
    commonSilenceRegions, totalCommonSilence,
    scanned,              \* the chunks examined so far: [start, end, common]
    fileIdx,              \* loop index of CutSilenceInMultipleFiles
    regionIdx, modifiedSamples, modifiedOrigin, totalRemovedDuration, regionsCut,
    results,              \* []*CuttingResult
    outputFiles,          \* what SaveWAV has written
    args,                 \* arguments of a function called on its own
    ret                   \* what that call returned

vars == <<cfg, original, audioFiles, origin, pc, chunkFrames, minFrames, frameStart,
          currentSilenceStart, commonSilenceRegions, totalCommonSilence, scanned,
          fileIdx, regionIdx, modifiedSamples, modifiedOrigin, totalRemovedDuration,
          regionsCut, results, outputFiles, args, ret>>

detectVars == <<chunkFrames, minFrames, frameStart, currentSilenceStart,
                commonSilenceRegions, totalCommonSilence, scanned>>
cutVars == <<fileIdx, regionIdx, modifiedSamples, modifiedOrigin, totalRemovedDuration,
             regionsCut, results>>
callVars == <<args, ret>>

\* before any call, and for a call that has not returned
NoArgs == [fn |-> "none"]
NoValue == "none"

\* float64(len(samples)) / float64(SampleRate) / float64(Channels)
DurationOf(n, sampleRate, channels) ==
    FDivInt(FDivInt(FFromInt(n), sampleRate), channels)

\* interleaved samples of a buffer whose frame f carries the signal frames[f]
Interleave(frames, channels) ==
    [i \in 1..(Len(frames) * channels) |->
        IF (i - 1) % channels = 0 THEN frames[((i - 1) \div channels) + 1] ELSE NoiseFloor]

AudioData(frames, sampleRate, channels, bitDepth) ==
    [Samples    |-> Interleave(frames, channels),
     SampleRate |-> sampleRate,
     Channels   |-> channels,
     BitDepth   |-> bitDepth,
     Duration   |-> DurationOf(Len(frames) * channels, sampleRate, channels)]

FrameSeqs == UNION {[1..n -> SignalValues] : n \in 0..MaxFrames}

GetFrameCount(ad) == IF ad.Channels = 0 THEN 0 ELSE Len(ad.Samples) \div ad.Channels


(***************************************************************************)
(* isChunkSilent.  The RMS test 20*log10(sqrt(sumSquares/sampleCount)) <=  *)
(* thresholdDBFS is decided exactly, as                                    *)
(*   sum(sample^2) * 10^(-thresholdDBFS/10) <= sampleCount * factor^2,     *)
(* for thresholds that are multiples of 10 dB (away from equality the      *)
(* float64 evaluation decides the same way).                               *)
(***************************************************************************)
\* log2 of the normalization factor: 32768 = 2^15, 8388608 = 2^23, 2147483648 = 2^31
NormalizationBits(bitDepth) ==
    CASE bitDepth = 16 -> 15
      [] bitDepth = 24 -> 23
      [] bitDepth = 32 -> 31
      [] OTHER -> 15

Abs(n) == IF n < 0 THEN -n ELSE n

Smaller(a, b) == IF a < b THEN a ELSE b

\* sum of samples[i]^2 for Go indices startSample <= i < endSample
RECURSIVE SumSquares(_, _, _)
SumSquares(samples, startSample, endSample) ==
    IF startSample >= endSample THEN <<>>
    ELSE BAdd(BMulSmall(BFromInt(Abs(samples[startSample + 1])), Abs(samples[startSample + 1])),
              SumSquares(samples, startSample + 1, endSample))

RECURSIVE BTimesPow10(_, _)
BTimesPow10(a, j) == IF j = 0 THEN a ELSE BTimesPow10(BMulSmall(a, 10), j - 1)

\* rmsDBFS <= thresholdDBFS, for rms > 0
RmsWithinThreshold(sumSquares, sampleCount, bitDepth, thresholdDBFS) ==
    BCmp(BTimesPow10(sumSquares, (-thresholdDBFS) \div 10),
         BShl(BFromInt(sampleCount), 2 * NormalizationBits(bitDepth))) <= 0

\* (mutation) an RMS of exactly 0 is not taken for silence
isChunkSilentZeroEnergyLoud(audioData, startFrame, endFrame, thresholdDBFS) ==
    IF startFrame >= endFrame \/ endFrame > GetFrameCount(audioData) THEN TRUE
    ELSE LET startSample == startFrame * audioData.Channels
             endSample   == Smaller(endFrame * audioData.Channels, Len(audioData.Samples))
             sumSquares  == SumSquares(audioData.Samples, startSample, endSample)
         IN  IF endSample - startSample = 0 THEN TRUE
             ELSE IF sumSquares = <<>> THEN FALSE
             ELSE RmsWithinThreshold(sumSquares, endSample - startSample,
                                     audioData.BitDepth, thresholdDBFS)

isChunkSilent(audioData, startFrame, endFrame, thresholdDBFS) ==
    IF startFrame >= endFrame \/ endFrame > GetFrameCount(audioData) THEN TRUE
    ELSE LET startSample == startFrame * audioData.Channels
             endSample0  == endFrame * audioData.Channels
             endSample   == IF endSample0 > Len(audioData.Samples)
                            THEN Len(audioData.Samples) ELSE endSample0
             sampleCount == endSample - startSample
             sumSquares  == SumSquares(audioData.Samples, startSample, endSample)
         IN  IF sampleCount = 0 THEN TRUE
             ELSE IF sumSquares = <<>> THEN TRUE
             ELSE RmsWithinThreshold(sumSquares, sampleCount, audioData.BitDepth, thresholdDBFS)

createSilenceRegion(startFrame, endFrame, sampleRate) ==
    LET startTime == FDivInt(FFromInt(startFrame), sampleRate)
        endTime   == FDivInt(FFromInt(endFrame), sampleRate)
    IN  [StartFrame |-> startFrame,
         EndFrame   |-> endFrame,
         Duration   |-> FSub(endTime, startTime),
         StartTime  |-> startTime,
         EndTime    |-> endTime]

(***************************************************************************)
(* DetectCommonSilence                                                      *)
(***************************************************************************)
\* (mutation) a chunk size of 0 frames is not raised to 1
ChunkFramesOfUnguarded(chunkSizeMs, sampleRate) == (chunkSizeMs * sampleRate) \div 1000

\* chunkFrames := (config.ChunkSizeMs * reference.SampleRate) / 1000; 0 becomes 1
ChunkFramesOf(chunkSizeMs, sampleRate) ==
    LET c == (chunkSizeMs * sampleRate) \div 1000 IN IF c = 0 THEN 1 ELSE c

\* (mutation) the comparison is turned round: the longest buffer is found
RECURSIVE LongestFrom(_, _, _)
LongestFrom(files, i, m) ==
    IF i > Len(files) THEN m
    ELSE LongestFrom(files, i + 1,
                     IF GetFrameCount(files[i]) > m THEN GetFrameCount(files[i]) ELSE m)

RECURSIVE ShortestFrom(_, _, _)
ShortestFrom(files, i, m) ==
    IF i > Len(files) THEN m
    ELSE ShortestFrom(files, i + 1,
                      IF GetFrameCount(files[i]) < m THEN GetFrameCount(files[i]) ELSE m)

\* (mutation) the reference file's length is taken, the other files are not compared
MinFramesOfReference(files) == GetFrameCount(files[1])

\* minFrames: the frame count of the shortest buffer
MinFramesOf(files) == ShortestFrom(files, 2, GetFrameCount(files[1]))

\* (mutation) the last chunk is not clamped to minFrames
FrameEndUnclamped(fs, cf, mf) == fs + cf

\* frameEnd of the chunk starting at fs
FrameEndOf(fs, cf, mf) == IF fs + cf > mf THEN mf ELSE fs + cf

\* (mutation) only the reference file is examined
IsSilentInReference(files, fs, fe, thresholdDBFS) ==
    isChunkSilent(files[1], fs, fe, thresholdDBFS)

\* isCommonSilence: the chunk is silent in ALL files
IsCommonSilence(files, fs, fe, thresholdDBFS) ==
    \A i \in 1..Len(files) : isChunkSilent(files[i], fs, fe, thresholdDBFS)

\* (mutation) no minimum-duration gate
AppendAlways(regions, region, minDurationMs) == Append(regions, region)

\* the minimum-duration gate on a closed candidate region
AppendIfLongEnough(regions, region, minDurationMs) ==
    IF FLe(FDivInt(FFromInt(minDurationMs), 1000), region.Duration)
    THEN Append(regions, region)
    ELSE regions

\* (mutation) the candidate start is not reset when a region is closed
NextSilenceStartNoReset(isCommon, cur, fs) ==
    IF isCommon THEN (IF cur = -1 THEN fs ELSE cur) ELSE cur

\* currentSilenceStart after a chunk
NextSilenceStart(isCommon, cur, fs) ==
    IF isCommon THEN (IF cur = -1 THEN fs ELSE cur) ELSE -1

\* (mutation) only the sample rates are compared
EmptyOrSampleRateMismatch(files) ==
    \/ Len(files) = 0
    \/ \E i \in 2..Len(files) : files[i].SampleRate # files[1].SampleRate

\* no file, or a file whose sample rate or channel count is not the reference's
EmptyOrFormatMismatch(files) ==
    \/ Len(files) = 0
    \/ \E i \in 2..Len(files) :
          \/ files[i].SampleRate # files[1].SampleRate
          \/ files[i].Channels # files[1].Channels

\* the format check, chunkFrames and minFrames (detection.go 37-61)
DetectBegin ==
    /\ pc = "detect"
    /\ IF EmptyOrFormatMismatch(audioFiles)
       THEN /\ pc' = "failed"
            /\ UNCHANGED detectVars
       ELSE /\ pc' = "scan"
            /\ chunkFrames' = ChunkFramesOf(cfg.ChunkSizeMs, audioFiles[1].SampleRate)
            /\ minFrames' = MinFramesOf(audioFiles)
            /\ frameStart' = 0
            /\ currentSilenceStart' = -1
            /\ commonSilenceRegions' = <<>>
            /\ UNCHANGED <<totalCommonSilence, scanned>>
    /\ UNCHANGED <<cfg, original, audioFiles, origin, outputFiles>>
    /\ UNCHANGED cutVars
    /\ UNCHANGED callVars

\* one iteration of the chunk loop (detection.go 70-102)
DetectChunk ==
    /\ pc = "scan"
    /\ frameStart < minFrames
    /\ LET frameEnd == FrameEndOf(frameStart, chunkFrames, minFrames)
           isCommon == IsCommonSilence(audioFiles, frameStart, frameEnd, cfg.SilenceThreshold)
       IN  /\ scanned' = Append(scanned, [start |-> frameStart, end |-> frameEnd,
                                           common |-> isCommon])
           /\ currentSilenceStart' = NextSilenceStart(isCommon, currentSilenceStart, frameStart)
           /\ commonSilenceRegions' =
                  IF ~isCommon /\ currentSilenceStart # -1
                  THEN AppendIfLongEnough(commonSilenceRegions,
                           createSilenceRegion(currentSilenceStart, frameStart,
                                               audioFiles[1].SampleRate),
                           cfg.MinSilenceDuration)
                  ELSE commonSilenceRegions
    /\ frameStart' = frameStart + chunkFrames
    /\ UNCHANGED <<cfg, original, audioFiles, origin, pc, chunkFrames, minFrames,
                   totalCommonSilence, outputFiles>>
    /\ UNCHANGED cutVars
    /\ UNCHANGED callVars

RECURSIVE SumDurations(_, _, _)
SumDurations(regions, i, acc) ==
    IF i > Len(regions) THEN acc
    ELSE SumDurations(regions, i + 1, FAdd(acc, regions[i].Duration))


\* the region that extends to the end, the total, and the caller's branch on
\* len(CommonSilenceRegions) (detection.go 104-124, runVoidCutter 191)
DetectFinish ==
    /\ pc = "scan"
    /\ frameStart >= minFrames
    /\ LET regions == IF currentSilenceStart # -1
                      THEN AppendIfLongEnough(commonSilenceRegions,
                               createSilenceRegion(currentSilenceStart, minFrames,
                                                   audioFiles[1].SampleRate),
                               cfg.MinSilenceDuration)
                      ELSE commonSilenceRegions
       IN  /\ commonSilenceRegions' = regions
           /\ totalCommonSilence' = SumDurations(regions, 1, FZero)
           /\ pc' = IF Len(regions) > 0 THEN "cut" ELSE "save"
    /\ UNCHANGED <<cfg, original, audioFiles, origin, chunkFrames, minFrames, frameStart,
                   currentSilenceStart, scanned, outputFiles>>
    /\ UNCHANGED cutVars
    /\ UNCHANGED callVars

(***************************************************************************)
(* CutSilenceRegions                                                        *)
(***************************************************************************)
\* (mutation) the division is done on the integers: float64(keepDurationMs / 1000)
KeepDurationSecIntDiv(keepDurationMs) == FFromInt(keepDurationMs \div 1000)

\* keepDurationSec := float64(keepDurationMs) / 1000.0
KeepDurationSec(keepDurationMs) == FDivInt(FFromInt(keepDurationMs), 1000)

\* the region is too short to cut
SkipRegion(region, keepDurationSec) == FLe(region.Duration, keepDurationSec)

\* cutFrames := int(cutDuration * float64(audioData.SampleRate))
CutFrames(region, keepDurationSec, sampleRate) ==
    FTrunc(FMulInt(FSub(region.Duration, keepDurationSec), sampleRate))

\* (mutation) the kept frames are not multiplied by the channel count
KeepSamplesPerChannel(keepDurationSec, sampleRate, channels) ==
    FTrunc(FMulInt(keepDurationSec, sampleRate))

\* keepSamples := int(keepDurationSec*float64(audioData.SampleRate)) * audioData.Channels
KeepSamples(keepDurationSec, sampleRate, channels) ==
    FTrunc(FMulInt(keepDurationSec, sampleRate)) * channels

\* endSample, clamped to the buffer
CutEndSample(region, channels, len) ==
    IF region.EndFrame * channels > len THEN len ELSE region.EndFrame * channels

\* (mutation) the start frame is not multiplied by the channel count
CutStartBasePerFrame(region, channels) ==
    IF region.StartFrame < 0 THEN 0 ELSE region.StartFrame

\* startSample, clamped to the buffer
CutStartBase(region, channels) ==
    IF region.StartFrame * channels < 0 THEN 0 ELSE region.StartFrame * channels

\* cutStartSample: after the kept part, or the region start when the kept part
\* does not fit
CutStartSample(startSample, keepSamples, endSample) ==
    IF startSample + keepSamples > endSample THEN startSample
    ELSE startSample + keepSamples

\* actualCutSamples
ActualCutSamples(cutStartSample, endSample, cutSamples) ==
    IF endSample - cutStartSample > cutSamples THEN cutSamples
    ELSE endSample - cutStartSample

\* (mutation) the tail is copied from one sample too far
RemoveSamplesOneMore(samples, cutStartSample, actualCutSamples) ==
    SubSeq(samples, 1, cutStartSample)
        \o SubSeq(samples, cutStartSample + actualCutSamples + 2, Len(samples))

\* newSamples: samples[:cutStartSample] ++ samples[cutStartSample+actualCutSamples:]
RemoveSamples(samples, cutStartSample, actualCutSamples) ==
    SubSeq(samples, 1, cutStartSample)
        \o SubSeq(samples, cutStartSample + actualCutSamples + 1, Len(samples))

\* (mutation) the division by the channel count is forgotten
ActualCutDurationPerSample(actualCutSamples, sampleRate, channels) ==
    FDivInt(FFromInt(actualCutSamples), sampleRate)

\* actualCutDuration := float64(actualCutSamples) / float64(SampleRate) / float64(Channels)
ActualCutDuration(actualCutSamples, sampleRate, channels) ==
    FDivInt(FDivInt(FFromInt(actualCutSamples), sampleRate), channels)

\* (mutation) the regions are taken first to last
RegionAtForward(silenceRegions, i) == silenceRegions[Len(silenceRegions) + 1 - i]

\* region := silenceRegions[i], i counting from 1
RegionAt(silenceRegions, i) == silenceRegions[i]

\* one call of CutSilenceRegions begins: the clone (cutting 20-34)
CutBegin ==
    /\ pc = "cut"
    /\ fileIdx <= Len(audioFiles)
    /\ modifiedSamples' = audioFiles[fileIdx].Samples
    /\ modifiedOrigin' = origin[fileIdx]
    /\ regionIdx' = Len(commonSilenceRegions)
    /\ totalRemovedDuration' = FZero
    /\ regionsCut' = <<>>
    /\ pc' = "cutloop"
    /\ UNCHANGED <<cfg, original, audioFiles, origin, fileIdx, results, outputFiles>>
    /\ UNCHANGED detectVars
    /\ UNCHANGED callVars

\* one iteration of the backward loop over the regions (cutting 37-89)
CutRegion ==
    /\ pc = "cutloop"
    /\ regionIdx >= 1
    /\ LET ad              == audioFiles[fileIdx]
           region          == RegionAt(commonSilenceRegions, regionIdx)
           keepDurationSec == KeepDurationSec(cfg.KeepSilenceDuration)
       IN  IF SkipRegion(region, keepDurationSec)
           THEN UNCHANGED <<modifiedSamples, modifiedOrigin, totalRemovedDuration, regionsCut>>
           ELSE LET cutSamples  == CutFrames(region, keepDurationSec, ad.SampleRate) * ad.Channels
                    endSample   == CutEndSample(region, ad.Channels, Len(modifiedSamples))
                    startSample == CutStartBase(region, ad.Channels)
                    keepSamples == KeepSamples(keepDurationSec, ad.SampleRate, ad.Channels)
                    cutStart    == CutStartSample(startSample, keepSamples, endSample)
                    actual      == ActualCutSamples(cutStart, endSample, cutSamples)
                IN  IF cutStart < endSample /\ cutSamples > 0
                    THEN /\ modifiedSamples' = RemoveSamples(modifiedSamples, cutStart, actual)
                         /\ modifiedOrigin' = RemoveSamples(modifiedOrigin, cutStart, actual)
                         /\ totalRemovedDuration' =
                                FAdd(totalRemovedDuration,
                                     ActualCutDuration(actual, ad.SampleRate, ad.Channels))
                         /\ regionsCut' = <<region>> \o regionsCut
                    ELSE UNCHANGED <<modifiedSamples, modifiedOrigin, totalRemovedDuration,
                                     regionsCut>>
    /\ regionIdx' = regionIdx - 1
    /\ UNCHANGED <<cfg, original, audioFiles, origin, pc, fileIdx, results, outputFiles>>
    /\ UNCHANGED detectVars
    /\ UNCHANGED callVars

\* the buffer is replaced and the CuttingResult returned (cutting 91-103); the
\* caller's loop moves to the next file (cutting 114-120)
CutFinish ==
    /\ pc = "cutloop"
    /\ regionIdx = 0
    /\ LET ad          == audioFiles[fileIdx]
           newDuration == DurationOf(Len(modifiedSamples), ad.SampleRate, ad.Channels)
       IN  /\ audioFiles' = [audioFiles EXCEPT ![fileIdx] =
                                [ad EXCEPT !.Samples = modifiedSamples,
                                           !.Duration = newDuration]]
           /\ results' = Append(results,
                                [OriginalDuration |-> ad.Duration,
                                 NewDuration      |-> newDuration,
                                 RemovedDuration  |-> totalRemovedDuration,
                                 RegionsCut       |-> regionsCut,
                                 KeepDurationMs   |-> cfg.KeepSilenceDuration])
    /\ origin' = [origin EXCEPT ![fileIdx] = modifiedOrigin]
    /\ fileIdx' = fileIdx + 1
    /\ pc' = IF fileIdx = Len(audioFiles) THEN "save" ELSE "cut"
    /\ UNCHANGED <<cfg, original, regionIdx, modifiedSamples, modifiedOrigin,
                   totalRemovedDuration, regionsCut, outputFiles>>
    /\ UNCHANGED detectVars
    /\ UNCHANGED callVars

\* the output files are generated (runVoidCutter 207-223)
SaveAll ==
    /\ pc = "save"
    /\ outputFiles' = [i \in 1..Len(audioFiles) |-> audioFiles[i].Samples]
    /\ pc' = "done"
    /\ UNCHANGED <<cfg, original, audioFiles, origin>>
    /\ UNCHANGED detectVars
    /\ UNCHANGED cutVars
    /\ UNCHANGED callVars

(***************************************************************************)
(* The run: buffers that passed ValidateAudioFiles (one sample rate, one   *)
(* channel count) and a configuration that passed Validate.                *)
(***************************************************************************)
Init ==
    /\ \E sr \in SampleRates, ch \in ChannelCounts, n \in 1..MaxFiles :
         \E frames \in [1..n -> FrameSeqs] :
             /\ original = [i \in 1..n |-> AudioData(frames[i], sr, ch, 16)]
             /\ audioFiles = original
             /\ origin = [i \in 1..n |-> [k \in 1..(Len(frames[i]) * ch) |-> k - 1]]
    /\ \E m \in MinDurations, k \in KeepDurations :
         cfg = [SilenceThreshold    |-> DefaultThresholdDBFS,
                MinSilenceDuration  |-> m,
                KeepSilenceDuration |-> k,
                ChunkSizeMs         |-> AnalysisChunkMs]
    /\ pc = "detect"
    /\ chunkFrames = 0
    /\ minFrames = 0
    /\ frameStart = 0
    /\ currentSilenceStart = -1
    /\ commonSilenceRegions = <<>>
    /\ totalCommonSilence = FZero
    /\ scanned = <<>>
    /\ fileIdx = 1
    /\ regionIdx = 0
    /\ modifiedSamples = <<>>
    /\ modifiedOrigin = <<>>
    /\ totalRemovedDuration = FZero
    /\ regionsCut = <<>>
    /\ results = <<>>
    /\ outputFiles = <<>>
    /\ args = NoArgs
    /\ ret = NoValue

Next ==
    \/ DetectBegin
    \/ DetectChunk
    \/ DetectFinish
    \/ CutBegin
    \/ CutRegion
    \/ CutFinish
    \/ SaveAll

Spec == Init /\ [][Next]_vars


(***************************************************************************)
(* CutSilenceRegions on its own: one buffer and any ascending,             *)
(* non-overlapping region list, which may reach past the end of the buffer *)
(***************************************************************************)
MaxCutFrames == 7
MaxRegions == 2

FramePairs(lo) == {p \in (lo..MaxCutFrames) \X (lo..MaxCutFrames) : p[1] < p[2]}

\* the ascending, non-overlapping lists of at most k regions from frame lo on
RECURSIVE RegionListsFrom(_, _)
RegionListsFrom(lo, k) ==
    IF k = 0 THEN {<<>>}
    ELSE {<<>>} \cup
         UNION {{<<p>> \o rest : rest \in RegionListsFrom(p[2], k - 1)} : p \in FramePairs(lo)}

InitCut ==
    /\ \E sr \in SampleRates, ch \in ChannelCounts, n \in 0..MaxCutFrames :
         /\ original = <<AudioData([f \in 1..n |-> 0], sr, ch, 16)>>
         /\ audioFiles = original
         /\ origin = <<[k \in 1..(n * ch) |-> k - 1]>>
         /\ \E rl \in RegionListsFrom(0, MaxRegions) :
              commonSilenceRegions =
                  [i \in 1..Len(rl) |-> createSilenceRegion(rl[i][1], rl[i][2], sr)]
    /\ \E k \in KeepDurations :
         cfg = [SilenceThreshold    |-> DefaultThresholdDBFS,
                MinSilenceDuration  |-> DefaultMinSilenceDuration,
                KeepSilenceDuration |-> k,
                ChunkSizeMs         |-> AnalysisChunkMs]
    /\ pc = "cut"
    /\ chunkFrames = 0
    /\ minFrames = 0
    /\ frameStart = 0
    /\ currentSilenceStart = -1
    /\ totalCommonSilence = FZero
    /\ scanned = <<>>
    /\ fileIdx = 1
    /\ regionIdx = 0
    /\ modifiedSamples = <<>>
    /\ modifiedOrigin = <<>>
    /\ totalRemovedDuration = FZero
    /\ regionsCut = <<>>
    /\ results = <<>>
    /\ outputFiles = <<>>
    /\ args = NoArgs
    /\ ret = NoValue

NextCut ==
    \/ CutBegin
    \/ CutRegion
    \/ CutFinish

SpecCut == InitCut /\ [][NextCut]_vars

\* the state of the run's variables while a function is called on its own
NoRun ==
    /\ chunkFrames = 0
    /\ minFrames = 0
    /\ frameStart = 0
    /\ currentSilenceStart = -1
    /\ commonSilenceRegions = <<>>
    /\ totalCommonSilence = FZero
    /\ scanned = <<>>
    /\ fileIdx = 1
    /\ regionIdx = 0
    /\ modifiedSamples = <<>>
    /\ modifiedOrigin = <<>>
    /\ totalRemovedDuration = FZero
    /\ regionsCut = <<>>
    /\ results = <<>>
    /\ outputFiles = <<>>

runVars == <<cfg, original, audioFiles, origin, outputFiles>>

(***************************************************************************)
(* isChunkSilent on its own: one buffer of any bit depth, any threshold    *)
(* that Validate admits, and any frame range, also empty, inverted or past *)
(* the end of the buffer                                                   *)
(***************************************************************************)
MaxChunkFrames == 2

DefaultKeepSilenceDuration == 250
Quiet == 1
ChunkSampleValues == {0, Quiet, Loud}
BitDepths == {8, 16, 24, 32}
Thresholds == {-120, -50, 0}
ChunkSampleRate == 100

InitChunk ==
    /\ \E ch \in ChannelCounts, bits \in BitDepths, n \in 0..MaxChunkFrames :
         \E s \in [1..(n * ch) -> ChunkSampleValues] :
             /\ original = <<[Samples    |-> s,
                              SampleRate |-> ChunkSampleRate,
                              Channels   |-> ch,
                              BitDepth   |-> bits,
                              Duration   |-> DurationOf(n * ch, ChunkSampleRate, ch)]>>
             /\ audioFiles = original
             /\ origin = <<[k \in 1..(n * ch) |-> k - 1]>>
    /\ \E th \in Thresholds :
         cfg = [SilenceThreshold    |-> th,
                MinSilenceDuration  |-> DefaultMinSilenceDuration,
                KeepSilenceDuration |-> DefaultKeepSilenceDuration,
                ChunkSizeMs         |-> AnalysisChunkMs]
    /\ \E a \in 0..(MaxChunkFrames + 1), b \in 0..(MaxChunkFrames + 1) :
         args = [fn |-> "isChunkSilent", startFrame |-> a, endFrame |-> b]
    /\ ret = NoValue
    /\ pc = "call"
    /\ NoRun

\* isChunkSilent(audioData, startFrame, endFrame, thresholdDBFS) returns
CallIsChunkSilent ==
    /\ pc = "call"
    /\ args.fn = "isChunkSilent"
    /\ ret' = isChunkSilent(audioFiles[1], args.startFrame, args.endFrame,
                            cfg.SilenceThreshold)
    /\ pc' = "returned"
    /\ UNCHANGED args
    /\ UNCHANGED runVars
    /\ UNCHANGED detectVars
    /\ UNCHANGED cutVars

NextChunk ==
    \/ CallIsChunkSilent

SpecChunk == InitChunk /\ [][NextChunk]_vars

(***************************************************************************)
(* DetectCommonSilence on its own: any list of buffers, also empty, of     *)
(* mixed formats, bit depths and lengths, and any positive chunk size      *)
(***************************************************************************)
MaxDetectFrames == 3

DetectFrameSeqs == UNION {[1..n -> SignalValues] : n \in 0..MaxDetectFrames}
DetectBitDepths == {16, 24}
ChunkSizes == {1, 10, 25}

InitDetect ==
    /\ \E n \in 0..MaxFiles :
         \E fmt \in [1..n -> SampleRates \X ChannelCounts \X DetectBitDepths],
            frames \in [1..n -> DetectFrameSeqs] :
             /\ original = [i \in 1..n |->
                               AudioData(frames[i], fmt[i][1], fmt[i][2], fmt[i][3])]
             /\ audioFiles = original
             /\ origin = [i \in 1..n |->
                             [k \in 1..(Len(frames[i]) * fmt[i][2]) |-> k - 1]]
    /\ \E m \in MinDurations, c \in ChunkSizes :
         cfg = [SilenceThreshold    |-> DefaultThresholdDBFS,
                MinSilenceDuration  |-> m,
                KeepSilenceDuration |-> DefaultKeepSilenceDuration,
                ChunkSizeMs         |-> c]
    /\ pc = "detect"
    /\ args = NoArgs
    /\ ret = NoValue
    /\ NoRun

NextDetect ==
    \/ DetectBegin
    \/ DetectChunk
    \/ DetectFinish

SpecDetect == InitDetect /\ [][NextDetect]_vars

(***************************************************************************)
(* The scan of DetectCommonSilence over buffers of one format, with the    *)
(* call running on: a loop iteration or a return that is possible is taken *)
(***************************************************************************)
MaxScanFrames == 3

ScanFrameSeqs == UNION {[1..n -> SignalValues] : n \in 0..MaxScanFrames}

InitScan ==
    /\ \E n \in 1..MaxFiles, sr \in SampleRates :
         \E frames \in [1..n -> ScanFrameSeqs] :
             /\ original = [i \in 1..n |-> AudioData(frames[i], sr, 1, 16)]
             /\ audioFiles = original
             /\ origin = [i \in 1..n |-> [k \in 1..Len(frames[i]) |-> k - 1]]
    /\ \E c \in ChunkSizes :
         cfg = [SilenceThreshold    |-> DefaultThresholdDBFS,
                MinSilenceDuration  |-> DefaultMinSilenceDuration,
                KeepSilenceDuration |-> DefaultKeepSilenceDuration,
                ChunkSizeMs         |-> c]
    /\ pc = "detect"
    /\ args = NoArgs
    /\ ret = NoValue
    /\ NoRun

\* the position of the call changes: every step of NextDetect is such a step
ScanAdvances ==
    /\ pc \in {"detect", "scan"}
    /\ pc' \in {"failed", "scan", "cut", "save"}
    /\ frameStart' \in {frameStart, frameStart + chunkFrames}
    /\ <<pc', frameStart'>> # <<pc, frameStart>>

FairSpecScan == InitScan /\ [][NextDetect]_vars /\ WF_<<pc, frameStart>>(ScanAdvances)

(***************************************************************************)
(* The core's two entry points: a run enters at DetectCommonSilence, or    *)
(* at CutSilenceRegions with a region list of the caller's                 *)
(***************************************************************************)
InitCore == InitDetect \/ InitCut

NextCore ==
    \/ DetectBegin
    \/ DetectChunk
    \/ DetectFinish
    \/ CutBegin
    \/ CutRegion
    \/ CutFinish

SpecCore == InitCore /\ [][NextCore]_vars

(***************************************************************************)
(* calculateTruePeakWithBitDepth on its own (internal/loudness), over      *)
(* int32 samples up to both ends of the range                              *)
(***************************************************************************)
MaxPeakSamples == 2

MaxInt32 == 2147483647
MinInt32 == -2147483647 - 1

PeakSampleValues == {MinInt32, -MaxInt32, -32768, -1, 0, 1, 32767, 8388607, MaxInt32}

\* -x on an int32: the two's complement, ~x + 1, where the increment of
\* MaxInt32 wraps round to MinInt32
Neg32(x) ==
    LET inverted == -(x + 1)
    IN  IF inverted = MaxInt32 THEN MinInt32 ELSE inverted + 1

\* maxValue: 2^15 - 1, 2^23 - 1, 2^31 - 1
PeakMaxValue(bitDepth) ==
    CASE bitDepth = 16 -> 32767
      [] bitDepth = 24 -> 8388607
      [] bitDepth = 32 -> 2147483647
      [] OTHER -> 32767

\* maxAbsSample after the loop over samples[i..]
RECURSIVE MaxAbsSampleFrom(_, _, _)
MaxAbsSampleFrom(samples, i, maxAbsSample) ==
    IF i > Len(samples) THEN maxAbsSample
    ELSE LET sample    == samples[i]
             absSample == IF sample < 0 THEN Neg32(sample) ELSE sample
         IN  MaxAbsSampleFrom(samples, i + 1,
                              IF absSample > maxAbsSample THEN absSample ELSE maxAbsSample)

FOne == FFromInt(1)

calculateTruePeakWithBitDepth(samples, bitDepth) ==
    IF Len(samples) = 0 THEN FZero
    ELSE LET maxAbsSample == MaxAbsSampleFrom(samples, 1, 0)
             peak == FDiv(FFromInt(maxAbsSample), FFromInt(PeakMaxValue(bitDepth)))
         IN  IF FLt(FOne, peak) THEN FOne ELSE peak

InitPeak ==
    /\ \E n \in 0..MaxPeakSamples, bits \in BitDepths :
         \E s \in [1..n -> PeakSampleValues] :
             args = [fn |-> "calculateTruePeakWithBitDepth", samples |-> s, bitDepth |-> bits]
    /\ ret = NoValue
    /\ pc = "call"
    /\ original = <<>>
    /\ audioFiles = <<>>
    /\ origin = <<>>
    /\ cfg = [SilenceThreshold    |-> DefaultThresholdDBFS,
              MinSilenceDuration  |-> DefaultMinSilenceDuration,
              KeepSilenceDuration |-> DefaultKeepSilenceDuration,
              ChunkSizeMs         |-> AnalysisChunkMs]
    /\ NoRun

\* calculateTruePeakWithBitDepth(samples, bitDepth) returns
CallCalculateTruePeak ==
    /\ pc = "call"
    /\ args.fn = "calculateTruePeakWithBitDepth"
    /\ ret' = calculateTruePeakWithBitDepth(args.samples, args.bitDepth)
    /\ pc' = "returned"
    /\ UNCHANGED args
    /\ UNCHANGED runVars
    /\ UNCHANGED detectVars
    /\ UNCHANGED cutVars

NextPeak ==
    \/ CallCalculateTruePeak

SpecPeak == InitPeak /\ [][NextPeak]_vars

(***************************************************************************)
(* runVoidCutter from its first line: the configuration as the flags give  *)
(* it, the input files as the file system holds them, and the stages up to  *)
(* the detection.  The gain of the normalization, a power of ten of a       *)
(* logarithm of the RMS, is drawn from Gains; buffers of digital silence    *)
(* only, whose gain is infinite, are not drawn.                             *)
(***************************************************************************)
MaxRunFrames == 2

RunFrameSeqs == {<<>>, <<Loud>>} \cup {f \in [1..MaxRunFrames -> SignalValues] : f[MaxRunFrames] = Loud}
FileStates == {"ok", "missing", "notwav", "unreadable"}
Gains == {FDivInt(FFromInt(1), 2), FFromInt(8)}
TargetLoudnessValues == {-16, -5, -31}

\* the configurations of the flags: the defaults' threshold with short
\* durations, and one configuration for each check of Validate
RunConfigs ==
    {[SilenceThreshold |-> DefaultThresholdDBFS, MinSilenceDuration |-> 10,
      KeepSilenceDuration |-> k, ChunkSizeMs |-> AnalysisChunkMs] : k \in {0, 5}}
    \cup {[SilenceThreshold |-> t, MinSilenceDuration |-> 10,
           KeepSilenceDuration |-> 0, ChunkSizeMs |-> AnalysisChunkMs] : t \in {-121, 1}}
    \cup {[SilenceThreshold |-> DefaultThresholdDBFS, MinSilenceDuration |-> 0,
           KeepSilenceDuration |-> 0, ChunkSizeMs |-> AnalysisChunkMs],
          [SilenceThreshold |-> DefaultThresholdDBFS, MinSilenceDuration |-> 10,
           KeepSilenceDuration |-> -1, ChunkSizeMs |-> AnalysisChunkMs]}

InitRun ==
    /\ \E n \in 0..MaxFiles, testCopy \in BOOLEAN, target \in TargetLoudnessValues :
         \E fmt \in [1..n -> SampleRates \X ChannelCounts],
            frames \in [1..n -> RunFrameSeqs],
            state \in [1..n -> FileStates] :
             args = [fn             |-> "runVoidCutter",
                     testCopy       |-> testCopy,
                     TargetLoudness |-> target,
                     InputFiles     |->
                         [i \in 1..n |->
                             [state |-> state[i],
                              data  |-> AudioData(frames[i], fmt[i][1], fmt[i][2], 16)]]]
    /\ cfg \in RunConfigs
    /\ ret = NoValue
    /\ pc = "validate"
    /\ original = <<>>
    /\ audioFiles = <<>>
    /\ origin = <<>>
    /\ NoRun

\* what every stage of the run before the detection leaves alone
StageUnchanged ==
    /\ UNCHANGED <<cfg, outputFiles, args, ret>>
    /\ UNCHANGED detectVars
    /\ UNCHANGED cutVars

\* Config.Validate returns an error
ConfigInvalid(c, inputFiles) ==
    \/ Len(inputFiles) = 0
    \/ c.SilenceThreshold < -120 \/ c.SilenceThreshold > 0
    \/ c.MinSilenceDuration <= 0
    \/ c.KeepSilenceDuration < 0

\* cfg.Validate() (runVoidCutter 70-72)
Validate ==
    /\ pc = "validate"
    /\ pc' = IF ConfigInvalid(cfg, args.InputFiles) THEN "failed" ELSE "stat"
    /\ UNCHANGED <<original, audioFiles, origin>>
    /\ StageUnchanged

\* every input file exists and is named .wav (runVoidCutter 75-83)
CheckInputFiles ==
    /\ pc = "stat"
    /\ pc' = IF \E i \in DOMAIN args.InputFiles :
                    args.InputFiles[i].state \in {"missing", "notwav"}
             THEN "failed" ELSE "load"
    /\ UNCHANGED <<original, audioFiles, origin>>
    /\ StageUnchanged

\* audio.LoadWAV of every input file (runVoidCutter 98-108)
LoadWAV ==
    /\ pc = "load"
    /\ IF \E i \in DOMAIN args.InputFiles : args.InputFiles[i].state # "ok"
       THEN /\ pc' = "failed"
            /\ UNCHANGED audioFiles
       ELSE /\ pc' = "compat"
            /\ audioFiles' = [i \in DOMAIN args.InputFiles |-> args.InputFiles[i].data]
    /\ UNCHANGED <<original, origin>>
    /\ StageUnchanged

\* |a - b| > 1.0 for durations a, b
DurationsDiffer(a, b) ==
    LET d == FSub(a, b) IN FLt(FOne, [d EXCEPT !.neg = FALSE])

\* audio.ValidateAudioFiles returns an error
Incompatible(files) ==
    \/ Len(files) = 0
    \/ \E i \in 2..Len(files) :
          \/ files[i].SampleRate # files[1].SampleRate
          \/ files[i].Channels # files[1].Channels
          \/ DurationsDiffer(files[i].Duration, files[1].Duration)

\* audio.ValidateAudioFiles and the branch on the test mode (runVoidCutter 112-127)
ValidateAudioFiles ==
    /\ pc = "compat"
    /\ pc' = IF Incompatible(audioFiles) THEN "failed"
             ELSE IF args.testCopy THEN "copy" ELSE "measure"
    /\ UNCHANGED <<original, audioFiles, origin>>
    /\ StageUnchanged

\* the test mode: the loaded buffers are saved as they are (runVoidCutter 127-146)
TestCopy ==
    /\ pc = "copy"
    /\ outputFiles' = [i \in 1..Len(audioFiles) |-> audioFiles[i].Samples]
    /\ pc' = "done"
    /\ UNCHANGED <<cfg, original, audioFiles, origin, args, ret>>
    /\ UNCHANGED detectVars
    /\ UNCHANGED cutVars

\* (mutation) a buffer without samples is measured like any other
NoFileUnmeasurable(files) == FALSE

\* loudness.MeasureLoudness returns an error for some buffer
SomeFileUnmeasurable(files) == \E i \in DOMAIN files : Len(files[i].Samples) = 0

\* loudness.MeasureLoudness of every buffer (runVoidCutter 153-163)
MeasureLoudness ==
    /\ pc = "measure"
    /\ pc' = IF SomeFileUnmeasurable(audioFiles) THEN "failed" ELSE "normalize"
    /\ UNCHANGED <<original, audioFiles, origin>>
    /\ StageUnchanged

\* loudness.ValidateTargetLoudness returns an error
TargetLoudnessInvalid(targetLUFS) == targetLUFS > -6 \/ targetLUFS < -30

\* maxValue of ApplyGain
GainMaxValue(bitDepth) ==
    CASE bitDepth = 16 -> 32767
      [] bitDepth = 24 -> 8388607
      [] bitDepth = 32 -> 2147483647
      [] OTHER -> 32767

\* one sample of ApplyGain: float64(sample) * gain, clamped, converted to int32
ApplyGainSample(sample, gain, bitDepth) ==
    LET product   == FMulInt(gain, Abs(sample))
        newSample == [product EXCEPT !.neg = (sample < 0 /\ product.m # <<>>)]
        maxValue  == GainMaxValue(bitDepth)
        minFloat  == [FAdd(FFromInt(maxValue), FOne) EXCEPT !.neg = TRUE]
    IN  IF FLt(FFromInt(maxValue), newSample) THEN maxValue
        ELSE IF FLt(newSample, minFloat) THEN -maxValue - 1
        ELSE FTrunc(newSample)

ApplyGain(ad, gain) ==
    [ad EXCEPT !.Samples = [k \in DOMAIN ad.Samples |->
                               ApplyGainSample(ad.Samples[k], gain, ad.BitDepth)]]

\* loudness.NormalizeMultipleAudio (runVoidCutter 167-170): every buffer gets
\* its gain in place; the buffers as normalized are what the detection is given
NormalizeMultipleAudio ==
    /\ pc = "normalize"
    /\ IF \/ Len(audioFiles) = 0
          \/ TargetLoudnessInvalid(args.TargetLoudness)
          \/ SomeFileUnmeasurable(audioFiles)
       THEN /\ pc' = "failed"
            /\ UNCHANGED <<original, audioFiles, origin>>
       ELSE /\ pc' = "detect"
            /\ \E gain \in [DOMAIN audioFiles -> Gains] :
                 audioFiles' = [i \in DOMAIN audioFiles |-> ApplyGain(audioFiles[i], gain[i])]
            /\ original' = audioFiles'
            /\ origin' = [i \in DOMAIN audioFiles |->
                             [k \in DOMAIN audioFiles[i].Samples |-> k - 1]]
    /\ StageUnchanged

\* SaveWAV returns an error for the file after the first k (runVoidCutter 209-216)
SaveFails ==
    /\ pc = "save"
    /\ \E k \in 0..(Len(audioFiles) - 1) :
         outputFiles' = [i \in 1..k |-> audioFiles[i].Samples]
    /\ pc' = "failed"
    /\ UNCHANGED <<cfg, original, audioFiles, origin, args, ret>>
    /\ UNCHANGED detectVars
    /\ UNCHANGED cutVars

NextRun ==
    \/ Validate
    \/ CheckInputFiles
    \/ LoadWAV
    \/ ValidateAudioFiles
    \/ TestCopy
    \/ MeasureLoudness
    \/ NormalizeMultipleAudio
    \/ DetectBegin
    \/ DetectChunk
    \/ DetectFinish
    \/ CutBegin
    \/ CutRegion
    \/ CutFinish
    \/ SaveAll
    \/ SaveFails

SpecRun == InitRun /\ [][NextRun]_vars

(***************************************************************************)
(* Properties                                                               *)
(***************************************************************************)
DetectionDone == pc \in {"cut", "cutloop", "save", "done"}

Range(f) == {f[i] : i \in DOMAIN f}

\* the shortest buffer's frame count, over the buffers as given
ShortestFrameCount ==
    CHOOSE m \in {Len(original[i].Samples) \div original[i].Channels : i \in DOMAIN original} :
        \A i \in DOMAIN original : m <= Len(original[i].Samples) \div original[i].Channels

\* the chunk is silent in every buffer as given
ChunkCommonSilent(c) ==
    \A i \in DOMAIN original :
        isChunkSilent(original[i], c.start, c.end, cfg.SilenceThreshold)

\* C1: the emitted regions are sorted ascending by StartFrame and do not
\* overlap, and each has 0 <= StartFrame < EndFrame.
C1_RegionsOrdered ==
    \A i \in DOMAIN commonSilenceRegions :
        /\ 0 <= commonSilenceRegions[i].StartFrame
        /\ commonSilenceRegions[i].StartFrame < commonSilenceRegions[i].EndFrame
        /\ i < Len(commonSilenceRegions) =>
              /\ commonSilenceRegions[i].EndFrame <= commonSilenceRegions[i + 1].StartFrame
              /\ commonSilenceRegions[i].StartFrame < commonSilenceRegions[i + 1].StartFrame

C1_Witness ==
    /\ pc = "cut"
    /\ Len(commonSilenceRegions) >= 2

\* C2: no emitted region lasts less than min_duration_ms/1000 seconds, so a
\* shorter run of common-silent chunks yields no region, wherever it ends.
C2_MinimumDurationGate ==
    \A i \in DOMAIN commonSilenceRegions :
        (commonSilenceRegions[i].EndFrame - commonSilenceRegions[i].StartFrame) * 1000
            >= cfg.MinSilenceDuration * original[1].SampleRate

\* a short silent run closed by a loud chunk and another ended by the end of
\* the scan, both rejected
C2_Witness ==
    /\ pc = "save"
    /\ commonSilenceRegions = <<>>
    /\ Len(scanned) >= 3
    /\ scanned[1].common
    /\ ~scanned[2].common
    /\ scanned[Len(scanned)].common

\* C3: every chunk that an emitted region covers is silent in every buffer;
\* a chunk that is not silent in some buffer lies in no emitted region.
C3_RegionsAreCommonSilence ==
    \A i \in DOMAIN commonSilenceRegions : \A j \in DOMAIN scanned :
        (/\ scanned[j].start < commonSilenceRegions[i].EndFrame
         /\ scanned[j].end > commonSilenceRegions[i].StartFrame)
            => ChunkCommonSilent(scanned[j])

\* a region next to a chunk that is silent in the first buffer only
C3_Witness ==
    /\ pc = "cut"
    /\ Len(original) = 2
    /\ \E j \in DOMAIN scanned :
          /\ isChunkSilent(original[1], scanned[j].start, scanned[j].end, cfg.SilenceThreshold)
          /\ ~isChunkSilent(original[2], scanned[j].start, scanned[j].end, cfg.SilenceThreshold)

\* the maximal runs of common-silent chunks that last at least the minimum,
\* as <<start, end>>
QualifyingRuns ==
    {<<scanned[a].start, IF b < Len(scanned) THEN scanned[b + 1].start ELSE ShortestFrameCount>> :
        <<a, b>> \in {p \in (DOMAIN scanned) \X (DOMAIN scanned) :
            /\ p[1] <= p[2]
            /\ \A j \in p[1]..p[2] : ChunkCommonSilent(scanned[j])
            /\ p[1] > 1 => ~ChunkCommonSilent(scanned[p[1] - 1])
            /\ p[2] < Len(scanned) => ~ChunkCommonSilent(scanned[p[2] + 1])
            /\ ((IF p[2] < Len(scanned) THEN scanned[p[2] + 1].start ELSE ShortestFrameCount)
                    - scanned[p[1]].start) * 1000
                 >= cfg.MinSilenceDuration * original[1].SampleRate}}

\* C4: the emitted regions are exactly the maximal runs of common-silent
\* chunks whose duration meets the minimum, none omitted and none split.
C4_ExactlyTheQualifyingRuns ==
    DetectionDone =>
        /\ {<<commonSilenceRegions[i].StartFrame, commonSilenceRegions[i].EndFrame>> :
               i \in DOMAIN commonSilenceRegions} = QualifyingRuns
        /\ Len(commonSilenceRegions) = Cardinality(QualifyingRuns)

\* C5: no emitted region and no examined chunk ends past the shortest buffer.
C5_NeverPastShortest ==
    /\ \A i \in DOMAIN commonSilenceRegions :
          commonSilenceRegions[i].EndFrame <= ShortestFrameCount
    /\ \A j \in DOMAIN scanned : scanned[j].end <= ShortestFrameCount

\* buffers of different lengths, and a region that ends with the shortest
C5_Witness ==
    /\ pc = "cut"
    /\ Len(original) = 2
    /\ Len(original[1].Samples) > Len(original[2].Samples)
    /\ commonSilenceRegions[Len(commonSilenceRegions)].EndFrame = ShortestFrameCount
    /\ scanned[Len(scanned)].end - scanned[Len(scanned)].start < chunkFrames


\* the original sample indices that buffer i no longer holds
RemovedSet(i) == (0..(Len(original[i].Samples) - 1)) \ Range(origin[i])

\* the original sample indices of region j in a buffer of ch channels
RegionSamples(j, ch) ==
    (commonSilenceRegions[j].StartFrame * ch)..(commonSilenceRegions[j].EndFrame * ch - 1)

KeepCoversEveryRegion ==
    \A j \in DOMAIN commonSilenceRegions :
        FLe(commonSilenceRegions[j].Duration,
            FDivInt(FFromInt(cfg.KeepSilenceDuration), 1000))

\* C6: when keep_duration_ms/1000 >= Duration for every region, the cut
\* leaves the samples as they were, cuts no region and removes no time.
C6_KeepCoversAllIsNoOp ==
    \A i \in DOMAIN results :
        KeepCoversEveryRegion =>
            /\ audioFiles[i].Samples = original[i].Samples
            /\ results[i].RegionsCut = <<>>
            /\ results[i].RemovedDuration = FZero

\* two regions inside the buffer, one as long as the kept duration and one shorter
C6_Witness ==
    /\ Len(results) = 1
    /\ Len(commonSilenceRegions) = 2
    /\ KeepCoversEveryRegion
    /\ commonSilenceRegions[2].EndFrame * original[1].Channels <= Len(original[1].Samples)
    /\ (commonSilenceRegions[1].EndFrame - commonSilenceRegions[1].StartFrame) * 1000
           = cfg.KeepSilenceDuration * original[1].SampleRate
    /\ (commonSilenceRegions[2].EndFrame - commonSilenceRegions[2].StartFrame) * 1000
           < cfg.KeepSilenceDuration * original[1].SampleRate

\* C7: of a region longer than keep_seconds and inside the buffer, exactly
\* the first floor(keep_seconds * sample_rate) frames survive and everything
\* after them up to the region's end is deleted.
C7_KeepsFrontDeletesRest ==
    \A i \in DOMAIN results : \A j \in DOMAIN commonSilenceRegions :
        LET ch == original[i].Channels
            sr == original[i].SampleRate
            r  == commonSilenceRegions[j]
            keepSamples == ((cfg.KeepSilenceDuration * sr) \div 1000) * ch
        IN  (/\ (r.EndFrame - r.StartFrame) * 1000 > cfg.KeepSilenceDuration * sr
             /\ r.EndFrame * ch <= Len(original[i].Samples))
            => \A k \in RegionSamples(j, ch) :
                   (k \in Range(origin[i])) <=> (k < r.StartFrame * ch + keepSamples)

\* the samples of region j that buffer i lost
RemovedIn(i, j) == Cardinality(RemovedSet(i) \cap RegionSamples(j, original[i].Channels))

RECURSIVE SumRemovedIn(_, _)
SumRemovedIn(i, j) == IF j = 0 THEN 0 ELSE RemovedIn(i, j) + SumRemovedIn(i, j - 1)

\* the float64 sum, last region first, of the removed durations of regions j..1
RECURSIVE RemovedDurationFrom(_, _, _)
RemovedDurationFrom(i, j, acc) ==
    IF j = 0 THEN acc
    ELSE RemovedDurationFrom(i, j - 1,
             FAdd(acc, FDivInt(FDivInt(FFromInt(RemovedIn(i, j)), original[i].SampleRate),
                               original[i].Channels)))

\* whole frames only, all of them inside the regions
LengthConsistent(i) ==
    /\ RemovedSet(i) \subseteq
           UNION {RegionSamples(j, original[i].Channels) : j \in DOMAIN commonSilenceRegions}
    /\ SumRemovedIn(i, Len(commonSilenceRegions)) % original[i].Channels = 0
    /\ GetFrameCount(audioFiles[i]) =
           GetFrameCount(original[i])
               - SumRemovedIn(i, Len(commonSilenceRegions)) \div original[i].Channels

\* C8 as stated: the new frame count is the old one minus the frames removed,
\* and RemovedDuration times sample_rate is exactly that number of frames.
C8_RemovedDurationExact ==
    \A i \in DOMAIN results :
        /\ LengthConsistent(i)
        /\ FMulInt(results[i].RemovedDuration, original[i].SampleRate) =
               FFromInt(SumRemovedIn(i, Len(commonSilenceRegions)) \div original[i].Channels)

\* C8 amended: the new frame count is the old one minus the frames removed,
\* exactly; RemovedDuration is the float64 sum, last region first, of
\* removed_samples/sample_rate/channel_count of each region, and NewDuration is
\* new_sample_count/sample_rate/channel_count.
C8_RemovedDurationIsFloatSum ==
    \A i \in DOMAIN results :
        /\ LengthConsistent(i)
        /\ results[i].RemovedDuration =
               RemovedDurationFrom(i, Len(commonSilenceRegions), FZero)
        /\ results[i].NewDuration =
               FDivInt(FDivInt(FFromInt(Len(audioFiles[i].Samples)), original[i].SampleRate),
                       original[i].Channels)

\* two regions of a stereo buffer cut, the second clamped by the end of the buffer
C8_Witness ==
    /\ Len(results) = 1
    /\ original[1].Channels = 2
    /\ Len(results[1].RegionsCut) = 2
    /\ commonSilenceRegions[2].EndFrame * 2 > Len(original[1].Samples)

\* C9: the cut removes the same original frames from every buffer, so equal
\* positions of the outputs hold the same original frame.
C9_TracksStayInSync ==
    pc \in {"save", "done"} =>
        \A i \in DOMAIN audioFiles : \A j \in DOMAIN audioFiles :
            /\ RemovedSet(i) = RemovedSet(j)
            /\ \A k \in 1..Smaller(Len(origin[i]), Len(origin[j])) : origin[i][k] = origin[j][k]
            /\ Len(results) = Len(audioFiles) =>
                   results[i].RegionsCut = results[j].RegionsCut

\* two stereo buffers of different lengths, shortened by the same frames in
\* the middle
C9_Witness ==
    /\ pc = "save"
    /\ Len(original) = 2
    /\ original[1].Channels = 2
    /\ Len(original[1].Samples) > Len(original[2].Samples)
    /\ Len(results) = 2
    /\ Len(results[2].RegionsCut) >= 1
    /\ RemovedSet(2) # {}
    /\ \E k \in DOMAIN origin[2] : k > 1 /\ origin[2][k] > origin[2][k - 1] + 1

\* C10: the frames of a longer buffer from the shortest buffer's frame count
\* on are the last frames of its output, in order and with their values.
C10_TailKeptVerbatim ==
    pc \in {"save", "done"} =>
        \A i \in DOMAIN audioFiles :
            LET first == ShortestFrameCount * original[i].Channels
                tail  == Len(original[i].Samples) - first
                out   == Len(audioFiles[i].Samples)
            IN  /\ out >= tail
                /\ Len(origin[i]) = out
                /\ \A k \in 1..tail :
                      /\ origin[i][out - tail + k] = first + k - 1
                      /\ audioFiles[i].Samples[out - tail + k] = original[i].Samples[first + k]

\* a longer buffer with a silent frame in its tail, after a cut that ended
\* at the shortest buffer's last frame
C10_Witness ==
    /\ pc = "save"
    /\ Len(original) = 2
    /\ Len(results) = 2
    /\ GetFrameCount(original[1]) >= ShortestFrameCount + 2
    /\ original[1].Samples[ShortestFrameCount * original[1].Channels + 1] = 0
    /\ Len(results[1].RegionsCut) >= 1
    /\ (ShortestFrameCount * original[1].Channels - 1) \in RemovedSet(1)

\* the region the backward loop is about to process has
\* start_sample + keep_samples > end_sample, end_sample clamped to the buffer
KeepExceedsSpan ==
    /\ pc = "cutloop"
    /\ regionIdx >= 1
    /\ LET ad     == audioFiles[fileIdx]
           region == commonSilenceRegions[regionIdx]
       IN  CutStartBase(region, ad.Channels)
               + KeepSamples(KeepDurationSec(cfg.KeepSilenceDuration), ad.SampleRate, ad.Channels)
             > CutEndSample(region, ad.Channels, Len(modifiedSamples))

\* C11: a region whose keep_samples exceeds its own sample span (after the
\* clamp of end_sample) is kept unmodified: processing it deletes no sample
\* and leaves the buffer length as it was.
C11_KeepExceedingSpanKeepsRegion ==
    [][KeepExceedsSpan => modifiedSamples' = modifiedSamples]_vars

\* the call of isChunkSilent has returned
ChunkReturned == pc = "returned" /\ args.fn = "isChunkSilent"

\* the sample indices (from 0) of the frame range, clamped to the buffer
ChunkSampleRange ==
    LET ad == original[1]
        lo == args.startFrame * ad.Channels
        hi == Smaller(args.endFrame * ad.Channels, Len(ad.Samples))
    IN  lo..(hi - 1)

\* C12: a chunk whose samples are all zero is classified silent, for every
\* threshold down to -120 dBFS and for every bit depth.
C12_ZeroChunkIsSilent ==
    (/\ ChunkReturned
     /\ \A k \in ChunkSampleRange : original[1].Samples[k + 1] = 0)
        => ret = TRUE

\* a stereo chunk of two zero frames inside a 32-bit buffer, at -120 dBFS
C12_Witness ==
    /\ ChunkReturned
    /\ original[1].BitDepth = 32
    /\ original[1].Channels = 2
    /\ cfg.SilenceThreshold = -120
    /\ args.startFrame = 0
    /\ args.endFrame = 2
    /\ Len(original[1].Samples) = 4
    /\ \A k \in ChunkSampleRange : original[1].Samples[k + 1] = 0
    /\ ret = TRUE

\* the classification of C13: silent without analysis only for a range that is
\* empty, inverted or starts at or beyond the frame count; otherwise by the
\* energy of the in-bounds samples
ClampedChunkSilent ==
    LET ad == original[1]
        lo == args.startFrame * ad.Channels
        hi == Smaller(args.endFrame * ad.Channels, Len(ad.Samples))
        sumSquares == SumSquares(ad.Samples, lo, hi)
    IN  IF args.startFrame >= args.endFrame \/ args.startFrame >= GetFrameCount(ad) THEN TRUE
        ELSE IF sumSquares = <<>> THEN TRUE
        ELSE RmsWithinThreshold(sumSquares, hi - lo, ad.BitDepth, cfg.SilenceThreshold)

\* C13: a frame range is silent without analysis only when it is empty,
\* inverted or starts at or beyond the buffer's frame count; a range that
\* starts inside the buffer and ends past its end is classified from the
\* energy of its in-bounds samples.
C13_OverhangingRangeIsClamped ==
    ChunkReturned => ret = ClampedChunkSilent

\* DetectCommonSilence has returned its error
DetectFailed == pc = "failed"

\* C14: DetectCommonSilence returns an error and no result exactly when the
\* list is empty or a buffer's sample rate or channel count differs from the
\* first buffer's; differing frame counts or bit depths are no error.
C14_ErrorIffEmptyOrMismatch ==
    LET bad == \/ Len(original) = 0
               \/ \E i \in DOMAIN original :
                     \/ original[i].SampleRate # original[1].SampleRate
                     \/ original[i].Channels # original[1].Channels
    IN  /\ DetectFailed =>
              /\ bad
              /\ commonSilenceRegions = <<>>
              /\ scanned = <<>>
              /\ totalCommonSilence = FZero
        /\ pc \in {"scan", "cut", "cutloop", "save", "done"} => ~bad

\* the error for two buffers that differ in the channel count alone
C14_Witness ==
    /\ DetectFailed
    /\ Len(original) = 2
    /\ original[1].SampleRate = original[2].SampleRate
    /\ original[1].Channels # original[2].Channels
    /\ original[1].BitDepth = original[2].BitDepth
    /\ Len(original[1].Samples) > 0

\* DetectCommonSilence was called and has returned a result
DetectReturned == chunkFrames > 0 /\ DetectionDone

\* C15: a zero-length buffer is no error.  DetectCommonSilence on a list
\* (of one format) that holds a zero-frame buffer returns no region, a total
\* of 0 and no error; CutSilenceRegions on a zero-sample buffer cuts no
\* region and leaves the buffer empty, for any region list and keep duration.
C15_EmptyBufferIsNoError ==
    /\ (/\ \E i \in DOMAIN original : Len(original[i].Samples) = 0
        /\ ~EmptyOrFormatMismatch(original))
          => /\ ~DetectFailed
             /\ minFrames = 0
             /\ scanned = <<>>
             /\ DetectReturned =>
                   /\ commonSilenceRegions = <<>>
                   /\ totalCommonSilence = FZero
    /\ \A i \in DOMAIN results :
          Len(original[i].Samples) = 0 =>
              /\ results[i].RegionsCut = <<>>
              /\ results[i].RemovedDuration = FZero
              /\ results[i].NewDuration = FZero
              /\ audioFiles[i].Samples = <<>>

\* CutSilenceRegions has returned for a zero-sample buffer and two regions
\* longer than the kept duration
C15_Witness ==
    /\ Len(results) = 1
    /\ Len(original[1].Samples) = 0
    /\ Len(commonSilenceRegions) = 2
    /\ cfg.KeepSilenceDuration = 5
    /\ commonSilenceRegions[1].StartFrame = 0

\* |x| of an int32 as a natural number, 2^31 for the most negative value
AbsWide(x) ==
    IF x = MinInt32 THEN BShl(<<1>>, 31) ELSE BFromInt(Abs(x))

\* the largest |samples[k]|, k >= i, and m
RECURSIVE MaxAbsWideFrom(_, _, _)
MaxAbsWideFrom(samples, i, m) ==
    IF i > Len(samples) THEN m
    ELSE MaxAbsWideFrom(samples, i + 1,
                        IF BCmp(AbsWide(samples[i]), m) > 0 THEN AbsWide(samples[i]) ELSE m)

\* min(1, max|sample| / (2^(bit_depth-1) - 1)) as a float64
PeakOfMaxAbs ==
    LET m        == MaxAbsWideFrom(args.samples, 1, <<>>)
        maxValue == BFromInt(PeakMaxValue(args.bitDepth))
    IN  IF BCmp(m, maxValue) >= 0 THEN FOne
        ELSE FDiv(FRound(FALSE, m, 0, FALSE), FRound(FALSE, maxValue, 0, FALSE))

\* C20: for every non-empty sample sequence calculateTruePeakWithBitDepth
\* returns min(1, max|sample| / maxValue), the maximum taken over the true
\* absolute values, also of a sample equal to -2^31.
C20_PeakIsMaxAbsSample ==
    (/\ pc = "returned"
     /\ args.fn = "calculateTruePeakWithBitDepth"
     /\ Len(args.samples) > 0)
        => ret = PeakOfMaxAbs

\* configuration validation, the check and loading of every input, the format
\* compatibility validation and the normalization of every buffer succeed
\* for the inputs of this run
EarlyStagesSucceed ==
    LET files == args.InputFiles
    IN  /\ Len(files) > 0
        /\ cfg.SilenceThreshold >= -120
        /\ cfg.SilenceThreshold <= 0
        /\ cfg.MinSilenceDuration > 0
        /\ cfg.KeepSilenceDuration >= 0
        /\ \A i \in DOMAIN files :
              /\ files[i].state = "ok"
              /\ files[i].data.SampleRate = files[1].data.SampleRate
              /\ files[i].data.Channels = files[1].data.Channels
              /\ Abs(GetFrameCount(files[i].data) - GetFrameCount(files[1].data))
                     <= files[1].data.SampleRate
              /\ Len(files[i].data.Samples) > 0
        /\ args.TargetLoudness <= -6
        /\ args.TargetLoudness >= -30

\* the detection has scanned every chunk and every buffer has been cut
CoreStagesCompleted ==
    /\ Len(audioFiles) = Len(args.InputFiles)
    /\ chunkFrames > 0
    /\ frameStart >= minFrames
    /\ Len(commonSilenceRegions) > 0 => Len(results) = Len(audioFiles)

\* C16: in a run without test-copy an output file is written only by the
\* save stage, after configuration validation, loading, compatibility
\* validation, normalization, detection and the cut of every buffer have
\* succeeded; a run that fails in one of them ends with no output file.
C16_NoOutputUnlessAllStagesSucceed ==
    /\ [](args.fn = "runVoidCutter" /\ ~args.testCopy /\ outputFiles # <<>>
             => EarlyStagesSucceed /\ CoreStagesCompleted)
    /\ [][(args.fn = "runVoidCutter" /\ ~args.testCopy /\ outputFiles' # outputFiles)
             => pc = "save" /\ EarlyStagesSucceed /\ CoreStagesCompleted]_vars

\* a normal run that wrote both outputs after a cut in both buffers
C16_Witness ==
    /\ args.fn = "runVoidCutter"
    /\ ~args.testCopy
    /\ pc = "done"
    /\ Len(outputFiles) = 2
    /\ Len(results) = 2
    /\ results[2].RegionsCut # <<>>
    /\ Len(outputFiles[1]) < Len(args.InputFiles[1].data.Samples)

\* the original sample indices that the cut of region j removes from buffer
\* i, every position computed on the buffer as it was given
CutRangeInOriginal(i, j) ==
    LET ad              == original[i]
        region          == commonSilenceRegions[j]
        keepDurationSec == KeepDurationSec(cfg.KeepSilenceDuration)
        cutSamples      == CutFrames(region, keepDurationSec, ad.SampleRate) * ad.Channels
        endSample       == CutEndSample(region, ad.Channels, Len(ad.Samples))
        startSample     == CutStartBase(region, ad.Channels)
        keepSamples     == KeepSamples(keepDurationSec, ad.SampleRate, ad.Channels)
        cutStart        == CutStartSample(startSample, keepSamples, endSample)
        actual          == ActualCutSamples(cutStart, endSample, cutSamples)
    IN  IF SkipRegion(region, keepDurationSec) THEN {}
        ELSE IF cutStart < endSample /\ cutSamples > 0
        THEN cutStart..(cutStart + actual - 1)
        ELSE {}

\* samples holds, in order, the original samples of buffer i outside removed
IsOriginalWithout(i, samples, indices, removed) ==
    /\ Len(samples) = Len(indices)
    /\ Range(indices) = (0..(Len(original[i].Samples) - 1)) \ removed
    /\ \A k \in DOMAIN indices :
          /\ k > 1 => indices[k - 1] < indices[k]
          /\ samples[k] = original[i].Samples[indices[k] + 1]

\* C17: for an ascending, non-overlapping region list the backward pass
\* yields the original buffer with the cut ranges of the regions, each
\* computed from original indices, deleted all at once; at every point of the
\* pass the regions not yet processed are untouched.
C17_BackwardPassIsSimultaneousDeletion ==
    /\ pc = "cutloop" =>
          IsOriginalWithout(fileIdx, modifiedSamples, modifiedOrigin,
              UNION {CutRangeInOriginal(fileIdx, j) :
                        j \in (regionIdx + 1)..Len(commonSilenceRegions)})
    /\ \A i \in DOMAIN results :
          IsOriginalWithout(i, audioFiles[i].Samples, origin[i],
              UNION {CutRangeInOriginal(i, j) : j \in DOMAIN commonSilenceRegions})

\* two regions of a stereo buffer, both cut, with frames surviving before,
\* between and after them
C17_Witness ==
    /\ Len(results) = 1
    /\ original[1].Channels = 2
    /\ Len(commonSilenceRegions) = 2
    /\ Len(results[1].RegionsCut) = 2
    /\ commonSilenceRegions[1].StartFrame > 0
    /\ commonSilenceRegions[1].EndFrame < commonSilenceRegions[2].StartFrame
    /\ commonSilenceRegions[2].EndFrame * 2 < Len(original[1].Samples)
    /\ CutRangeInOriginal(1, 1) # {}
    /\ CutRangeInOriginal(1, 2) # {}

\* samples, the survivors indices of buffer i, is made of whole frames: its
\* length is a multiple of the channel count, what was deleted is whole
\* frames, and every survivor is in its channel, in the original order
FrameAligned(i, samples, indices) ==
    LET ch      == original[i].Channels
        removed == (0..(Len(original[i].Samples) - 1)) \ Range(indices)
    IN  /\ Len(samples) % ch = 0
        /\ Len(samples) = Len(indices)
        /\ \A k \in removed : \A c \in 0..(ch - 1) : (k - (k % ch) + c) \in removed
        /\ \A p \in DOMAIN indices :
              /\ (p - 1) % ch = indices[p] % ch
              /\ p > 1 => indices[p - 1] < indices[p]
              /\ samples[p] = original[i].Samples[indices[p] + 1]

\* C18: a buffer of whole frames stays one after every cut and at return:
\* every deleted range starts and ends on a frame boundary, and the surviving
\* samples keep their order and their channel.
C18_CutsAreFrameAligned ==
    /\ pc = "cutloop" => FrameAligned(fileIdx, modifiedSamples, modifiedOrigin)
    /\ \A i \in DOMAIN results : FrameAligned(i, audioFiles[i].Samples, origin[i])

\* a stereo buffer cut inside a region, after one kept frame
C18_Witness ==
    /\ Len(results) = 1
    /\ original[1].Channels = 2
    /\ original[1].SampleRate = 200
    /\ cfg.KeepSilenceDuration = 5
    /\ Len(results[1].RegionsCut) >= 1
    /\ RemovedSet(1) # {}
    /\ \E j \in DOMAIN commonSilenceRegions :
          /\ (commonSilenceRegions[j].StartFrame * 2) \notin RemovedSet(1)
          /\ (commonSilenceRegions[j].StartFrame * 2 + 2) \in RemovedSet(1)

\* the chunks examined so far are consecutive from frame 0, each of
\* chunkFrames frames but for a last one cut short by minFrames
ScanIsPartition ==
    /\ \A j \in DOMAIN scanned :
          /\ scanned[j].start = (j - 1) * chunkFrames
          /\ scanned[j].start < scanned[j].end
          /\ scanned[j].end <= minFrames
          /\ j < Len(scanned) => scanned[j].end = scanned[j + 1].start
          /\ scanned[j].end - scanned[j].start # chunkFrames =>
                (j = Len(scanned) /\ scanned[j].end = minFrames)
    /\ frameStart = Len(scanned) * chunkFrames
    /\ DetectionDone =>
          IF minFrames = 0 THEN scanned = <<>>
          ELSE scanned # <<>> /\ scanned[Len(scanned)].end = minFrames

\* C19: for a positive chunk size and sample rate chunk_frames is
\* max(1, chunk_size_ms * sample_rate / 1000), at least 1; the scan visits
\* consecutive chunks that partition [0, analysis_frames), only the last of
\* them possibly shorter than chunk_frames, and terminates.
C19_ScanPartitionsAndTerminates ==
    /\ [](pc \in {"scan", "cut", "save"} =>
             /\ chunkFrames >= 1
             /\ LET c == (cfg.ChunkSizeMs * original[1].SampleRate) \div 1000
                IN  chunkFrames = IF c < 1 THEN 1 ELSE c
             /\ minFrames = ShortestFrameCount
             /\ ScanIsPartition)
    /\ [][pc = "scan" => \/ (pc' = "scan" /\ frameStart' > frameStart)
                          \/ DetectionDone']_vars
    /\ (pc = "scan") ~> DetectionDone

\* a scan of three frames in chunks of two has returned
C19_Witness ==
    /\ DetectionDone
    /\ chunkFrames = 2
    /\ minFrames = 3
    /\ Len(scanned) = 2
    /\ scanned[2].end - scanned[2].start = 1


\* the original sample indices that buffer i holds now, the buffer under the
\* cut taken from the clone
HeldNow(i) ==
    IF pc = "cutloop" /\ i = fileIdx THEN Range(modifiedOrigin) ELSE Range(origin[i])

\* the original sample indices of buffer i deleted so far
DeletedNow(i) == (0..(Len(original[i].Samples) - 1)) \ HeldNow(i)

\* the original sample indices of chunk c in a buffer of ch channels
ChunkSamples(c, ch) == (c.start * ch)..(c.end * ch - 1)

\* C21: detection followed by the cut with its regions deletes no audible
\* material: every deleted sample lies inside an emitted region and inside a
\* chunk classified silent in every buffer, and every sample of a chunk that
\* is not silent in some buffer survives, with its value, in every buffer.
C21_NoAudibleMaterialDeleted ==
    \A i \in DOMAIN original :
        LET ch == original[i].Channels
        IN  /\ \A k \in DeletedNow(i) :
                  /\ \E j \in DOMAIN commonSilenceRegions : k \in RegionSamples(j, ch)
                  /\ \E c \in DOMAIN scanned :
                        /\ k \in ChunkSamples(scanned[c], ch)
                        /\ scanned[c].common
                        /\ ChunkCommonSilent(scanned[c])
            /\ \A c \in DOMAIN scanned :
                  ~ChunkCommonSilent(scanned[c]) =>
                      \A k \in ChunkSamples(scanned[c], ch) :
                          /\ k \in HeldNow(i)
                          /\ \E p \in DOMAIN origin[i] :
                                /\ origin[i][p] = k
                                /\ audioFiles[i].Samples[p] = original[i].Samples[k + 1]

\* two stereo buffers, both cut with a positive kept duration, next to a chunk
\* that is loud in the second buffer only
C21_Witness ==
    /\ pc = "done"
    /\ Len(original) = 2
    /\ original[1].Channels = 2
    /\ cfg.KeepSilenceDuration > 0
    /\ DeletedNow(1) # {}
    /\ DeletedNow(2) # {}
    /\ \E c \in DOMAIN scanned :
          /\ isChunkSilent(original[1], scanned[c].start, scanned[c].end, cfg.SilenceThreshold)
          /\ ~isChunkSilent(original[2], scanned[c].start, scanned[c].end, cfg.SilenceThreshold)

====
